---------------------------- MODULE Spec2Model ----------------------------
(***************************************************************************)
(* The multi-turn /chat orchestrator of main.py (assistant_endpoint), the  *)
(* session store of db_utils.py and the read-only gate of utils.py.        *)
(*                                                                         *)
(* A request is a process: its local variables are functions of the        *)
(* request id and pc is its position in assistant_endpoint.  The session   *)
(* store is the conversation_messages table, a sequence of rows in rowid   *)
(* order.  SQL text is a sequence of one-character strings, so that        *)
(* str.upper, str.strip and the substring test are computed, not assumed.  *)
(*                                                                         *)
(* Spec      one /chat request, with every decision the LLM may return     *)
(* SpecSeq   /chat requests one after the other, seconds passing between   *)
(* SpecConc  two /chat requests in flight together                         *)
(* SpecStore db_utils called directly and GET /chat_history, next to one   *)
(*           /chat request                                                 *)
(* SpecGate  is_read_only_sql by itself, on texts typed and given whole    *)
(* SpecExec  POST /execute-sql and POST /check-and-execute, next to one    *)
(*           /chat request                                                 *)
(***************************************************************************)
EXTENDS Integers, Sequences, FiniteSets, TLC

(***************************************************************************)
(* Bounds of the model.                                                    *)
(***************************************************************************)
\* number of /chat requests of one run
NumRequests == 2
\* the direct calls of insert_message in a run of store calls
MaxDirectInserts == 2
\* the seconds that pass in a run of store calls
MaxClock == 1
\* in a run of several requests, the accepted sql turns of each request
\* after the first
MaxLaterSqlTurns == 1
\* how often, in one run, the LLM continues a loop with another decision
\* than the usual one (type sql, a reply, the query QSelect) or merges a
\* turn into another message than the usual one
MaxAltDecisions == 1

\* main.py:21
MULTI_TURN_ITERATION_MAX == 8

Requests == 1..NumRequests
\* the session ids requests come with
Sessions == {"s1", "s2"}

VARIABLES
    store,          \* conversation_messages: rows in rowid order
    now,            \* the clock CURRENT_TIMESTAMP reads
    pc,             \* position of each request in assistant_endpoint
    sessionId,      \* chat_req.sessionId
    message,        \* chat_req.message
    conversation,   \* the in-memory message list passed to the LLM
    data,           \* the decision object parsed from the LLM's reply
    final_type,
    final_message,
    final_query,
    final_results,
    turn_count,
    done,
    sql_history,
    db_results,
    connection,     \* execute_sql's connection to data.db, per request
    sql_text,       \* the SQL text a caller of the gate holds
    response,       \* what the last direct call of a client returned
    calls           \* history: the calls each request has made, in order

vars == <<store, now, pc, sessionId, message, conversation, data, final_type,
          final_message, final_query, final_results, turn_count, done,
          sql_history, db_results, connection, sql_text, response, calls>>

(***************************************************************************)
(* Text.                                                                   *)
(***************************************************************************)
RECURSIVE Reverse(_)
Reverse(s) == IF s = <<>> THEN <<>> ELSE Reverse(Tail(s)) \o <<Head(s)>>

\* the letters str.upper changes, and what it makes of them.  The last two
\* stand for the characters U+017F (long s) and U+0131 (dotless i), each one
\* character, which str.upper turns into S and I
LowerChars == <<"a","b","c","d","e","f","g","h","i","j","k","l","m",
                "n","o","p","q","r","s","t","u","v","w","x","y","z",
                "long s", "dotless i">>
UpperChars == <<"A","B","C","D","E","F","G","H","I","J","K","L","M",
                "N","O","P","Q","R","S","T","U","V","W","X","Y","Z",
                "S", "I">>

\* the upper-case letter of each lower-case letter
ToUpper ==
    [c \in {LowerChars[i] : i \in DOMAIN LowerChars} |->
        UpperChars[CHOOSE i \in DOMAIN LowerChars : LowerChars[i] = c]]

\* str.upper on one character
UpperChar(c) == IF c \in DOMAIN ToUpper THEN ToUpper[c] ELSE c

\* str.upper
Upper(s) == [i \in DOMAIN s |-> UpperChar(s[i])]

\* the characters str.strip removes
Whitespace == {" ", "\t", "\n", "\r"}

RECURSIVE LStrip(_)
LStrip(s) ==
    IF s # <<>> /\ Head(s) \in Whitespace THEN LStrip(Tail(s)) ELSE s

\* str.strip
Strip(s) == Reverse(LStrip(Reverse(LStrip(s))))

\* a string that starts with a keyword, not one that holds it
Contains_AtStart(text, keyword) ==
    /\ Len(keyword) <= Len(text)
    /\ \A j \in 1..Len(keyword) : text[j] = keyword[j]

\* Python's `keyword in text`
Contains(text, keyword) ==
    \E i \in 0..(Len(text) - Len(keyword)) :
        \A j \in 1..Len(keyword) : text[i + j] = keyword[j]

\* utils.py:465
forbidden == << <<"I","N","S","E","R","T">>, <<"U","P","D","A","T","E">>,
                <<"D","E","L","E","T","E">>, <<"D","R","O","P">>,
                <<"C","R","E","A","T","E">>, <<"A","L","T","E","R">> >>

\* a gate that forgets to upper-case the query
is_read_only_sql_CaseSensitive(sql) ==
    ~ \E k \in DOMAIN forbidden : Contains(sql, forbidden[k])

\* utils.py:452-467
is_read_only_sql(sql) ==
    LET upper_sql == Upper(sql)
    IN  ~ \E k \in DOMAIN forbidden : Contains(upper_sql, forbidden[k])


(***************************************************************************)
(* Values.                                                                 *)
(***************************************************************************)
\* a message content that is plain text
Text(s) == <<"text", s>>

\* json.dumps: the serialized object, told apart from plain text
JsonDumps(obj) == <<"json", obj>>

\* main.py:446-524
build_integrated_system_prompt == Text("PROMPT")

\* final_type before the first turn (main.py:331)
None == "<None>"

\* main.py:382
RejectionMessage == Text("Error: Attempted non-read-only query.")
\* main.py:431
FallbackMessage == Text("Got an unexpected response from GPT.")

\* dict.get(key, default)
Get(d, key, default) == IF key \in DOMAIN d THEN d[key] ELSE default

\* SQL texts the LLM may put in a decision
QNone == <<>>
QBlank == <<" ", "\n">>
QSelect == <<"S","E","L","E","C","T"," ","1">>
QAlt == <<"s","e","l","e","c","t"," ","x">>
QBad == <<"S","E","L","E","C">>
QDelete == <<"D","E","L","E","T","E"," ","x">>
QDropMixed == <<"S","E","L","E","C","T"," ","1",";","d","R","o","p"," ","x">>

Queries == {QNone, QBlank, QSelect, QAlt, QBad, QDelete, QDropMixed}

\* data.db as the executor sees it: the rows a statement returns, or an
\* sqlite3.Error (malformed SQL)
Rows1 == << [c |-> 1] >>
DataDb(sql) ==
    IF sql = QSelect THEN [ok |-> TRUE, rows |-> Rows1]
    ELSE IF sql = QBad THEN [ok |-> FALSE, rows |-> <<>>]
    ELSE [ok |-> TRUE, rows |-> <<>>]

\* the decision objects the LLM may return (json.loads of the function-call
\* arguments): type, reply and query, any of which may be missing
Decisions ==
    {[type |-> t, reply |-> Text("Hello!"), query |-> q] :
        t \in {"chat", "done", "foo"}, q \in {QNone, QSelect}}
    \cup {[type |-> "sql", reply |-> Text("Looking."), query |-> q] : q \in Queries}
    \cup {[type |-> "chat", reply |-> Text("Hello!")],
          [reply |-> Text("Hello!"), query |-> QNone],
          [type |-> "sql", query |-> QSelect]}

\* the decisions of the first request of a run of several: one of each kind
\* of turn
FewDecisions ==
    {[type |-> "sql", reply |-> Text("Looking."), query |-> q] :
        q \in {QSelect, QBad, QDelete, QNone}}
    \cup {[type |-> "done", reply |-> Text("Hello!"), query |-> QNone]}

\* the decisions of the later requests of such a run
LaterDecisions ==
    {[type |-> "sql", reply |-> Text("Looking."), query |-> q] :
        q \in {QSelect, QDelete}}
    \cup {[type |-> "done", reply |-> Text("Hello!"), query |-> QNone]}

\* texts the merge call of the Report Synthesizer may return
MergedMessages == {Text("merged"), Text("merged, other words")}

\* user messages
UserMessages == {Text("hi")}

(***************************************************************************)
(* db_utils.py: the session store.                                         *)
(***************************************************************************)
\* an insert that stores the row under no session
insert_message_Lost(table, session_id, role, content, created_at) == table

\* an insert that stores every row under one session id
insert_message_OneSession(table, session_id, role, content, created_at) ==
    Append(table, [session_id |-> "s1", role |-> role,
                   content |-> content, created_at |-> created_at])

\* db_utils.py:21-30
insert_message(table, session_id, role, content, created_at) ==
    Append(table, [session_id |-> session_id, role |-> role,
                   content |-> content, created_at |-> created_at])

Min(S) == CHOOSE x \in S : \A y \in S : x <= y

\* ORDER BY created_at ASC; rows of equal created_at come in rowid order
\* (tie = "rowid") or in reverse rowid order (tie = "reverse"): SQL leaves
\* the order of ties open
RECURSIVE OrderByCreatedAt(_, _)
OrderByCreatedAt(rows, tie) ==
    IF rows = <<>> THEN <<>>
    ELSE LET t == Min({rows[i].created_at : i \in DOMAIN rows})
             first == SelectSeq(rows, LAMBDA m : m.created_at = t)
             rest == SelectSeq(rows, LAMBDA m : m.created_at # t)
         IN  (IF tie = "rowid" THEN first ELSE Reverse(first))
             \o OrderByCreatedAt(rest, tie)

TieOrders == {"rowid", "reverse"}

\* a read that forgets the WHERE clause
get_conversation_AllSessions(table, session_id, tie) ==
    LET rows == OrderByCreatedAt(table, tie)
    IN  [i \in DOMAIN rows |-> [role |-> rows[i].role, content |-> rows[i].content]]

\* db_utils.py:32-45
get_conversation(table, session_id, tie) ==
    LET rows == OrderByCreatedAt(
                    SelectSeq(table, LAMBDA m : m.session_id = session_id), tie)
    IN  [i \in DOMAIN rows |-> [role |-> rows[i].role, content |-> rows[i].content]]

\* db_utils.get_conversation_with_timestamp, called at main.py:609: the
\* messages of the session in the order of their insertion (by created_at,
\* ties by insertion sequence), each with its created_at
get_conversation_with_timestamp(table, session_id) ==
    LET rows == OrderByCreatedAt(
                    SelectSeq(table, LAMBDA m : m.session_id = session_id), "rowid")
    IN  [i \in DOMAIN rows |-> [role |-> rows[i].role, content |-> rows[i].content,
                                created_at |-> rows[i].created_at]]

\* a filter that drops only the seeded prompt
IsDisplayed_AllButPrompt(msg) == msg.content # build_integrated_system_prompt

\* main.py:613
IsDisplayed(msg) == msg.role \in {"user", "assistant"}

\* main.py:596-619
get_chat_history(table, session_id) ==
    LET conversation_ == get_conversation_with_timestamp(table, session_id)
        user_assistant_messages == SelectSeq(conversation_, IsDisplayed)
    IN  [sessionId |-> session_id, messages |-> user_assistant_messages]

(***************************************************************************)
(* The history of calls.                                                   *)
(***************************************************************************)
Call(op, turn, arg) == [op |-> op, turn |-> turn, arg |-> arg]

Log(r, op, arg) == [calls EXCEPT ![r] = Append(@, Call(op, turn_count[r], arg))]

CallsOf(r, op) == SelectSeq(calls[r], LAMBDA c : c.op = op)

\* the decisions of request r, in order
DecisionsOf(r) ==
    LET llm == CallsOf(r, "llm")
    IN  [i \in DOMAIN llm |-> llm[i].arg]

\* a reading of the type that has no default
TypeOf_NoDefault(d) == Get(d, "type", "")

\* the fields of a decision as the loop reads them (main.py:360-362)
TypeOf(d) == Get(d, "type", "chat")
ReplyOf(d) == Get(d, "reply", Text(""))
QueryOf(d) == Get(d, "query", QNone)

\* the decision that usually continues a loop
UsualSql == [type |-> "sql", reply |-> Text("Looking."), query |-> QSelect]

\* a decision that continues the loop: an accepted query that executes
Continues(d) ==
    /\ TypeOf(d) = "sql"
    /\ Strip(QueryOf(d)) # <<>>
    /\ is_read_only_sql(QueryOf(d))
    /\ DataDb(QueryOf(d)).ok

\* the text the merge call usually returns
UsualMerged == Text("merged")

\* how often the LLM has continued a loop with another decision than
\* UsualSql, or merged a turn into another text than UsualMerged
AltDecisions ==
    Cardinality({<<r, i>> \in Requests \X (1..MULTI_TURN_ITERATION_MAX) :
        /\ i <= Len(DecisionsOf(r))
        /\ Continues(DecisionsOf(r)[i])
        /\ DecisionsOf(r)[i] # UsualSql})
    + Cardinality({<<r, i>> \in Requests \X (1..MULTI_TURN_ITERATION_MAX) :
        /\ i <= Len(CallsOf(r, "merge"))
        /\ CallsOf(r, "merge")[i].arg[2] # UsualMerged})

(***************************************************************************)
(* Initial states: no request received yet.                                *)
(***************************************************************************)
\* the table after an earlier /chat request on session s1 whose first
\* decision was done: system prompt, user message, raw decision
EarlierConversation ==
    LET d == [type |-> "done", reply |-> Text("Hello!"), query |-> QNone]
        t0 == insert_message(<<>>, "s1", "system", build_integrated_system_prompt, 0)
        t1 == insert_message(t0, "s1", "user", Text("hi"), 0)
    IN  insert_message(t1, "s1", "assistant", JsonDumps(d), 0)

InitialStores == {<<>>, EarlierConversation}

InitWith(table) ==
    /\ store = table
    /\ now = 0
    /\ pc = [r \in Requests |-> "idle"]
    /\ sessionId = [r \in Requests |-> ""]
    /\ message = [r \in Requests |-> Text("")]
    /\ conversation = [r \in Requests |-> <<>>]
    /\ data = [r \in Requests |-> [type |-> None]]
    /\ final_type = [r \in Requests |-> None]
    /\ final_message = [r \in Requests |-> Text("")]
    /\ final_query = [r \in Requests |-> QNone]
    /\ final_results = [r \in Requests |-> <<>>]
    /\ turn_count = [r \in Requests |-> 0]
    /\ done = [r \in Requests |-> FALSE]
    /\ sql_history = [r \in Requests |-> <<>>]
    /\ db_results = [r \in Requests |-> <<>>]
    /\ connection = [r \in Requests |-> None]
    /\ sql_text = <<>>
    /\ response = [op |-> None]
    /\ calls = [r \in Requests |-> <<>>]

\* one request on a table that is empty or holds an earlier conversation
Init == \E table \in InitialStores : InitWith(table)

\* a run of requests on an empty table
InitSeq == InitWith(<<>>)

loopVars == <<data, final_type, final_message, final_query, final_results,
              turn_count, done, sql_history, db_results>>
reqVars == <<sessionId, message>>
clientVars == <<sql_text, response>>

Finished(r) == pc[r] \in {"returned", "raised"}
Active(r) == pc[r] \notin {"idle", "returned", "raised"}

(***************************************************************************)
(* assistant_endpoint (main.py:292-443), one action per step.              *)
(***************************************************************************)
\* POST /chat arrives (main.py:292-293)
Arrive(r) ==
    /\ pc[r] = "idle"
    /\ \E sid \in Sessions, msg \in UserMessages :
        /\ sessionId' = [sessionId EXCEPT ![r] = sid]
        /\ message' = [message EXCEPT ![r] = msg]
    /\ pc' = [pc EXCEPT ![r] = "load"]
    /\ UNCHANGED <<store, now, conversation, loopVars, clientVars, connection,
                   calls>>

\* POST /chat arrives; one request is processed at a time
Receive(r) ==
    /\ \A q \in Requests : q < r => Finished(q)
    /\ Arrive(r)

\* a test that takes every session for a new one
IsNewSession_Always(conv) == TRUE

\* main.py:321
IsNewSession(conv) == conv = <<>>

\* main.py:315-321: init_db, get_conversation, the test for a new session
Load(r) ==
    /\ pc[r] = "load"
    /\ \E tie \in TieOrders :
        LET conv == get_conversation(store, sessionId[r], tie)
        IN  /\ conversation' = [conversation EXCEPT ![r] = conv]
            /\ pc' = [pc EXCEPT ![r] = IF IsNewSession(conv) THEN "seed" ELSE "user"]
            /\ calls' = Log(r, "get_conversation", conv)
    /\ UNCHANGED <<store, now, reqVars, clientVars, connection, loopVars>>

\* main.py:322-324: a new session gets the system prompt
Seed(r) ==
    /\ pc[r] = "seed"
    /\ store' = insert_message(store, sessionId[r], "system",
                               build_integrated_system_prompt, now)
    /\ conversation' = [conversation EXCEPT ![r] =
           Append(@, [role |-> "system", content |-> build_integrated_system_prompt])]
    /\ calls' = Log(r, "insert_message", <<"system", build_integrated_system_prompt>>)
    /\ pc' = [pc EXCEPT ![r] = "user"]
    /\ UNCHANGED <<now, reqVars, clientVars, connection, loopVars>>

\* main.py:326-339: the user's message, then the loop's variables
InsertUser(r) ==
    /\ pc[r] = "user"
    /\ store' = insert_message(store, sessionId[r], "user", message[r], now)
    /\ conversation' = [conversation EXCEPT ![r] =
           Append(@, [role |-> "user", content |-> message[r]])]
    /\ calls' = Log(r, "insert_message", <<"user", message[r]>>)
    /\ final_type' = [final_type EXCEPT ![r] = None]
    /\ final_message' = [final_message EXCEPT ![r] = Text("")]
    /\ final_query' = [final_query EXCEPT ![r] = QNone]
    /\ final_results' = [final_results EXCEPT ![r] = <<>>]
    /\ turn_count' = [turn_count EXCEPT ![r] = 0]
    /\ done' = [done EXCEPT ![r] = FALSE]
    /\ sql_history' = [sql_history EXCEPT ![r] = <<>>]
    /\ pc' = [pc EXCEPT ![r] = "loop"]
    /\ UNCHANGED <<now, reqVars, clientVars, connection, data, db_results>>

\* a loop test that lets one turn too many through
LoopTest_OffByOne(r) == ~done[r] /\ turn_count[r] <= MULTI_TURN_ITERATION_MAX

\* main.py:342
LoopTest(r) == ~done[r] /\ turn_count[r] < MULTI_TURN_ITERATION_MAX

\* main.py:343-365: one more turn: the LLM's decision, drawn from D, and its
\* three fields
Decide(r, D) ==
    /\ pc[r] = "loop"
    /\ LoopTest(r)
    /\ \E d \in D :
        /\ (Continues(d) /\ d # UsualSql) => AltDecisions < MaxAltDecisions
        /\ data' = [data EXCEPT ![r] = d]
        /\ final_type' = [final_type EXCEPT ![r] = TypeOf(d)]
        /\ final_query' = [final_query EXCEPT ![r] = QueryOf(d)]
        /\ calls' = [calls EXCEPT ![r] = Append(@, Call("llm", turn_count[r] + 1, d))]
    /\ turn_count' = [turn_count EXCEPT ![r] = @ + 1]
    /\ pc' = [pc EXCEPT ![r] = "raw"]
    /\ UNCHANGED <<store, now, reqVars, clientVars, connection, conversation, final_message,
                   final_results, done, sql_history, db_results>>

\* main.py:342, 436-443: the loop is over, the response is returned
Return(r) ==
    /\ pc[r] = "loop"
    /\ ~LoopTest(r)
    /\ pc' = [pc EXCEPT ![r] = "returned"]
    /\ UNCHANGED <<store, now, reqVars, clientVars, connection, conversation, loopVars, calls>>

\* a message that keeps only the reply of the decision
raw_json_str_ReplyOnly(d) == ReplyOf(d)

\* main.py:368: the whole decision object, serialized
raw_json_str(d) == JsonDumps(d)

\* main.py:367-370: the raw decision becomes an assistant message
PersistRaw(r) ==
    /\ pc[r] = "raw"
    /\ LET raw == raw_json_str(data[r])
       IN  /\ store' = insert_message(store, sessionId[r], "assistant", raw, now)
           /\ conversation' = [conversation EXCEPT ![r] =
                  Append(@, [role |-> "assistant", content |-> raw])]
           /\ calls' = Log(r, "insert_message", <<"assistant", raw>>)
    /\ pc' = [pc EXCEPT ![r] = "dispatch"]
    /\ UNCHANGED <<now, reqVars, clientVars, connection, loopVars>>

gpt_type(r) == TypeOf(data[r])
gpt_reply(r) == ReplyOf(data[r])
gpt_query(r) == QueryOf(data[r])

\* a dispatch that goes on asking after a chat decision
Case_ChatContinues(d) ==
    IF TypeOf(d) = "sql" /\ Strip(QueryOf(d)) # <<>> THEN "sql"
    ELSE IF TypeOf(d) = "done" THEN "done"
    ELSE "else"

\* main.py:373, 379, 425, 430: the case of the if/elif chain a decision takes
Case(d) ==
    IF TypeOf(d) = "chat" THEN "chat"
    ELSE IF TypeOf(d) = "sql" /\ Strip(QueryOf(d)) # <<>> THEN "sql"
    ELSE IF TypeOf(d) = "done" THEN "done"
    ELSE "else"

\* main.py:372-376 and 424-428: CASE A (chat) and CASE C (done)
DispatchReply(r) ==
    /\ pc[r] = "dispatch"
    /\ Case(data[r]) \in {"chat", "done"}
    /\ final_message' = [final_message EXCEPT ![r] = gpt_reply(r)]
    /\ done' = [done EXCEPT ![r] = TRUE]
    /\ pc' = [pc EXCEPT ![r] = "returned"]
    /\ UNCHANGED <<store, now, reqVars, clientVars, connection, conversation, data, final_type,
                   final_query, final_results, turn_count, sql_history,
                   db_results, calls>>

\* a rejection that leaves the type the decision came with
RejectedType_Kept(t) == t

\* main.py:383
RejectedType(t) == "chat"

\* main.py:378-385: CASE B, the query is not read-only
DispatchRejected(r) ==
    /\ pc[r] = "dispatch"
    /\ Case(data[r]) = "sql"
    /\ ~is_read_only_sql(gpt_query(r))
    /\ final_message' = [final_message EXCEPT ![r] = RejectionMessage]
    /\ final_type' = [final_type EXCEPT ![r] = RejectedType(@)]
    /\ done' = [done EXCEPT ![r] = TRUE]
    /\ calls' = Log(r, "is_read_only_sql", <<gpt_query(r), FALSE>>)
    /\ pc' = [pc EXCEPT ![r] = "returned"]
    /\ UNCHANGED <<store, now, reqVars, clientVars, connection, conversation, data, final_query,
                   final_results, turn_count, sql_history, db_results>>

\* main.py:378-381: CASE B, the query is read-only
DispatchSql(r) ==
    /\ pc[r] = "dispatch"
    /\ Case(data[r]) = "sql"
    /\ is_read_only_sql(gpt_query(r))
    /\ calls' = Log(r, "is_read_only_sql", <<gpt_query(r), TRUE>>)
    /\ pc' = [pc EXCEPT ![r] = "execute"]
    /\ UNCHANGED <<store, now, reqVars, clientVars, connection, conversation, loopVars>>

\* a fallback that leaves the loop running
FallbackDone_Forgotten(was) == was

\* main.py:432
FallbackDone(was) == TRUE

\* main.py:430-432: the else case; no break, the loop test ends the loop
DispatchElse(r) ==
    /\ pc[r] = "dispatch"
    /\ Case(data[r]) = "else"
    /\ final_message' = [final_message EXCEPT ![r] = FallbackMessage]
    /\ done' = [done EXCEPT ![r] = FallbackDone(done[r])]
    /\ pc' = [pc EXCEPT ![r] = "loop"]
    /\ UNCHANGED <<store, now, reqVars, clientVars, connection, conversation, data, final_type,
                   final_query, final_results, turn_count, sql_history,
                   db_results, calls>>

\* utils.py:83-89: execute_sql opens its connection to data.db
Connect(r) ==
    /\ pc[r] = "execute"
    /\ connection' = [connection EXCEPT ![r] = "open"]
    /\ pc' = [pc EXCEPT ![r] = "cursor"]
    /\ UNCHANGED <<store, now, reqVars, clientVars, conversation, loopVars, calls>>

\* utils.py:90-95: the statement is executed, once, and its rows are fetched;
\* or sqlite3 raises and the except clause re-raises
CursorExecute(r) ==
    /\ pc[r] = "cursor"
    /\ calls' = Log(r, "execute_sql", gpt_query(r))
    /\ pc' = [pc EXCEPT ![r] =
           IF DataDb(gpt_query(r)).ok THEN "finally" ELSE "finally_raise"]
    /\ UNCHANGED <<store, now, reqVars, clientVars, connection, conversation,
                   loopVars>>

\* a function that closes the connection after the fetch, not in a finally
CloseInFinally_OnlyOnSuccess(conn, raising) ==
    IF raising THEN conn ELSE "closed"

\* utils.py:96-98
CloseInFinally(conn, raising) ==
    IF conn # None THEN "closed" ELSE conn

\* utils.py:96-100, main.py:388-389: the connection is closed, the rows are
\* returned
ExecuteOk(r) ==
    /\ pc[r] = "finally"
    /\ connection' = [connection EXCEPT ![r] = CloseInFinally(@, FALSE)]
    /\ db_results' = [db_results EXCEPT ![r] = DataDb(gpt_query(r)).rows]
    /\ final_results' = [final_results EXCEPT ![r] = DataDb(gpt_query(r)).rows]
    /\ pc' = [pc EXCEPT ![r] = "merge"]
    /\ UNCHANGED <<store, now, reqVars, clientVars, conversation, data, final_type,
                   final_message, final_query, turn_count, done, sql_history,
                   calls>>

\* an except clause that swallows the error and returns the empty results
except_sqlite3_Error_Swallowed == "merge"

\* utils.py:94-95: where the re-raised sqlite3.Error takes the request.
\* Nothing in main.py:388 catches it, so it leaves assistant_endpoint
except_sqlite3_Error == "raised"

\* utils.py:94-98: the connection is closed, the error goes on to the caller
ExecuteRaise(r) ==
    /\ pc[r] = "finally_raise"
    /\ connection' = [connection EXCEPT ![r] = CloseInFinally(@, TRUE)]
    /\ pc' = [pc EXCEPT ![r] = except_sqlite3_Error]
    /\ UNCHANGED <<store, now, reqVars, clientVars, conversation, loopVars, calls>>

\* main.py:391-402: the report and the merged message of the Report Synthesizer
Merge(r, M) ==
    /\ pc[r] = "merge"
    /\ \E merged_message \in M :
        /\ merged_message # UsualMerged => AltDecisions < MaxAltDecisions
        /\ final_message' = [final_message EXCEPT ![r] = merged_message]
        /\ calls' = Log(r, "merge", <<gpt_query(r), merged_message>>)
    /\ pc' = [pc EXCEPT ![r] = "persist_merged"]
    /\ UNCHANGED <<store, now, reqVars, clientVars, connection, conversation, data, final_type,
                   final_query, final_results, turn_count, done, sql_history,
                   db_results>>

\* main.py:408-414 with the results left out of the entry
HistoryEntry_NoResults(turn, query, results, steps) ==
    [turn |-> turn, query |-> query, results |-> <<>>, steps |-> steps]

\* main.py:408-414 with the turn numbered from zero
HistoryEntry_FromZero(turn, query, results, steps) ==
    [turn |-> turn - 1, query |-> query, results |-> results, steps |-> steps]

\* main.py:408-414
HistoryEntry(turn, query, results, steps) ==
    [turn |-> turn, query |-> query, results |-> results, steps |-> steps]

\* main.py:404-414: the merged message is stored, the turn enters sql_history
PersistMerged(r) ==
    /\ pc[r] = "persist_merged"
    /\ store' = insert_message(store, sessionId[r], "assistant", final_message[r], now)
    /\ conversation' = [conversation EXCEPT ![r] =
           Append(@, [role |-> "assistant", content |-> final_message[r]])]
    /\ sql_history' = [sql_history EXCEPT ![r] =
           Append(@, HistoryEntry(turn_count[r], gpt_query(r), db_results[r],
                                  final_message[r]))]
    /\ calls' = Log(r, "insert_message", <<"assistant", final_message[r]>>)
    /\ pc' = [pc EXCEPT ![r] = "persist_results"]
    /\ UNCHANGED <<now, reqVars, clientVars, connection, data, final_type, final_message, final_query,
                   final_results, turn_count, done, db_results>>

\* a message that serializes the rows under another key
results_str_Bare(results) == JsonDumps([results |-> results])

\* main.py:417
results_str(results) == JsonDumps([query_results |-> results])

\* main.py:416-422: the results become a system message; next iteration
PersistResults(r) ==
    /\ pc[r] = "persist_results"
    /\ LET str == results_str(db_results[r])
       IN  /\ store' = insert_message(store, sessionId[r], "system", str, now)
           /\ conversation' = [conversation EXCEPT ![r] =
                  Append(@, [role |-> "system", content |-> str])]
           /\ calls' = Log(r, "insert_message", <<"system", str>>)
    /\ pc' = [pc EXCEPT ![r] = "loop"]
    /\ UNCHANGED <<now, reqVars, clientVars, connection, loopVars>>

\* a second of CURRENT_TIMESTAMP passes.  ORDER BY reads only the order of
\* the timestamps, so the clock moves once past the newest row and then waits
\* for the next insert
Tick ==
    /\ store # <<>>
    /\ now = store[Len(store)].created_at
    /\ now' = now + 1
    /\ UNCHANGED <<store, pc, reqVars, clientVars, connection, conversation, loopVars, calls>>

\* main.py:349: the message list a decision call passes to the LLM
messages_passed(r) == conversation[r]

\* main.py:342-347: request r is about to make a decision call
AtDecisionCall(r) == pc[r] = "loop" /\ LoopTest(r)

\* main.py:436-443
Response(r) ==
    [type |-> final_type[r],
     final_message |-> final_message[r],
     last_query |-> final_query[r],
     last_results |-> final_results[r],
     sql_history |-> sql_history[r],
     turns_executed |-> turn_count[r]]

\* a request of a run of several; session ids are interchangeable, so the
\* first request comes with s1
ReceiveSeq(r) ==
    /\ Receive(r)
    /\ r = 1 => sessionId'[r] = "s1"

\* a turn of a run of several requests: the first request may use its whole
\* loop, a later one continues at most MaxLaterSqlTurns times
DecideSeq(r) ==
    /\ Decide(r, IF r = 1 THEN FewDecisions ELSE LaterDecisions)
    /\ (r > 1 /\ Continues(data'[r])) => turn_count'[r] <= MaxLaterSqlTurns

\* the steps of assistant_endpoint after the request is received, but for the
\* LLM's decision and the merge call
Step(r) ==
    \/ Load(r)
    \/ Seed(r)
    \/ InsertUser(r)
    \/ Return(r)
    \/ PersistRaw(r)
    \/ DispatchReply(r)
    \/ DispatchRejected(r)
    \/ DispatchSql(r)
    \/ DispatchElse(r)
    \/ Connect(r)
    \/ CursorExecute(r)
    \/ ExecuteOk(r)
    \/ ExecuteRaise(r)
    \/ PersistMerged(r)
    \/ PersistResults(r)

\* one /chat request, with every decision the LLM may return
Next ==
    \/ Receive(1)
    \/ Decide(1, Decisions)
    \/ Merge(1, MergedMessages)
    \/ Step(1)

Spec == Init /\ [][Next]_vars

\* requests one after the other; seconds pass between them
TickBetween ==
    /\ \A r \in Requests : ~Active(r)
    /\ \E r \in Requests : pc[r] = "idle"
    /\ Tick

NextSeq ==
    \/ TickBetween
    \/ \E r \in Requests :
        \/ ReceiveSeq(r)
        \/ DecideSeq(r)
        \/ Merge(r, {UsualMerged})
        \/ Step(r)

SpecSeq == InitSeq /\ [][NextSeq]_vars

(***************************************************************************)
(* Requests in flight together.  /chat is a plain def, which FastAPI runs  *)
(* in its thread pool: the steps of two requests interleave, and each      *)
(* insert_message and get_conversation is one transaction of the store.    *)
(***************************************************************************)
\* the requests in flight together
Concurrent == {1, 2}

\* the first of them comes with s1, the other with any session id
ArriveConc(r) ==
    /\ Arrive(r)
    /\ r = 1 => sessionId'[r] = "s1"

\* the decision that ends a loop
DoneDecision == [type |-> "done", reply |-> Text("Hello!"), query |-> QNone]

\* a turn of a request in flight with another: any kind of turn first, and
\* after an executed sql turn the LLM is done
DecideConc(r) ==
    Decide(r, IF turn_count[r] = 0 THEN FewDecisions ELSE {DoneDecision})

NextConc ==
    \E r \in Concurrent :
        \/ ArriveConc(r)
        \/ DecideConc(r)
        \/ Merge(r, {UsualMerged})
        \/ Step(r)

SpecConc == InitSeq /\ [][NextConc]_vars

(***************************************************************************)
(* Calls of the store: db_utils called directly and GET /chat_history,     *)
(* next to one /chat request.  response is what such a call returned, with *)
(* the table as it was before the call, until the caller has taken it.     *)
(***************************************************************************)
\* the roles /chat stores messages under (main.py:323, 327, 369, 405, 418)
Roles == {"system", "user", "assistant"}

\* db_utils.py:6-19: CREATE TABLE IF NOT EXISTS leaves an existing table alone
init_db(table) == table

InitDb ==
    /\ store' = init_db(store)
    /\ response' = [op |-> "init_db", before |-> store]
    /\ UNCHANGED <<now, pc, reqVars, conversation, loopVars, connection,
                   sql_text, calls>>

\* the content of the messages inserted by direct calls
DirectContent == Text("direct")

\* db_utils.py:21-30, called directly
InsertMessage ==
    /\ Cardinality({i \in DOMAIN store : store[i].content = DirectContent})
           < MaxDirectInserts
    /\ \E session_id \in Sessions, role \in Roles :
        /\ store' = insert_message(store, session_id, role, DirectContent, now)
        /\ response' = [op |-> "insert_message", session_id |-> session_id,
                        before |-> store]
    /\ UNCHANGED <<now, pc, reqVars, conversation, loopVars, connection,
                   sql_text, calls>>

\* db_utils.py:32-45, called directly
GetConversation ==
    /\ \E session_id \in Sessions, tie \in TieOrders :
        response' = [op |-> "get_conversation", session_id |-> session_id,
                     result |-> get_conversation(store, session_id, tie),
                     before |-> store]
    /\ UNCHANGED <<store, now, pc, reqVars, conversation, loopVars, connection,
                   sql_text, calls>>

\* main.py:596-619: GET /chat_history/{session_id}
GetChatHistory ==
    /\ \E session_id \in Sessions :
        response' = [op |-> "chat_history", session_id |-> session_id,
                     result |-> get_chat_history(store, session_id),
                     before |-> store]
    /\ UNCHANGED <<store, now, pc, reqVars, conversation, loopVars, connection,
                   sql_text, calls>>

\* seconds pass
TickStore ==
    /\ now < MaxClock
    /\ Tick

\* the caller takes the response
TakeResponse ==
    /\ response.op # None
    /\ response' = [op |-> None]
    /\ UNCHANGED <<store, now, pc, reqVars, conversation, loopVars, connection,
                   sql_text, calls>>

\* no response is waiting for its caller
Quiet == response.op = None

\* the store is read at any moment of the /chat request; direct inserts and
\* the seconds come before and after it
NextStore ==
    \/ TakeResponse
    \/ Quiet /\ InitDb
    \/ Quiet /\ GetConversation
    \/ Quiet /\ GetChatHistory
    \/ Quiet /\ ~Active(1) /\ InsertMessage
    \/ Quiet /\ ~Active(1) /\ TickStore
    \/ Quiet /\ ArriveConc(1)
    \/ Quiet /\ DecideConc(1)
    \/ Quiet /\ Merge(1, {UsualMerged})
    \/ Quiet /\ Step(1)

SpecStore == InitSeq /\ [][NextStore]_vars

(***************************************************************************)
(* The gate by itself: a caller holds a SQL text, changes it, and asks     *)
(* is_read_only_sql about it.                                              *)
(***************************************************************************)
\* the length of the texts typed character by character
MaxGateLen == 4

\* the characters typed
GateAlphabet == {"D", "R", "O", "P", "d", "r", "o", "p", " "}

\* texts given whole
SqlSelectProducts ==
    <<"S","E","L","E","C","T"," ","*"," ","F","R","O","M"," ","P","r","o","d","u","c","t","s">>
SqlSelectThenDrop ==
    <<"s","e","l","e","c","t"," ","*"," ","f","r","o","m"," ","p","r","o","d","u","c","t","s",";"," ","D","R","O","P"," ","T","A","B","L","E"," ","P","r","o","d","u","c","t","s">>
SqlUpdatedAt ==
    <<"S","E","L","E","C","T"," ","u","p","d","a","t","e","d","_","a","t"," ","F","R","O","M"," ","t">>
SqlLiteralDelete ==
    <<"S","E","L","E","C","T"," ","'","D","e","l","e","t","e"," ","m","e","'">>
SqlLongSInsert ==
    <<"i","n","long s","e","r","t">>
SqlDotlessIInsert ==
    <<"dotless i","n","s","e","r","t">>
SqlCreate ==
    <<"C","r","e","a","t","e">>
SqlAlter ==
    <<"x"," ","a","l","T","e","r">>
SqlNearMisses ==
    <<"i","n","s","e","r"," ","t"," ","u","p","d","a","t"," ","d","e","l","e","t"," ","d","r","o"," ","c","r","e","a","t"," ","a","l","t","e">>

GateTexts == {SqlSelectProducts, SqlSelectThenDrop, SqlUpdatedAt, SqlLiteralDelete,
              SqlLongSInsert, SqlDotlessIInsert, SqlCreate, SqlAlter, SqlNearMisses}

\* one more character
TypeSql ==
    /\ Len(sql_text) < MaxGateLen
    /\ \E c \in GateAlphabet : sql_text' = Append(sql_text, c)
    /\ response' = [op |-> None]
    /\ UNCHANGED <<store, now, pc, reqVars, conversation, loopVars, connection,
                   calls>>

\* another text
PasteSql ==
    /\ \E text \in GateTexts : sql_text' = text
    /\ response' = [op |-> None]
    /\ UNCHANGED <<store, now, pc, reqVars, conversation, loopVars, connection,
                   calls>>

\* utils.py:452-467
CallGate ==
    /\ response' = [op |-> "is_read_only_sql", arg |-> sql_text,
                    result |-> is_read_only_sql(sql_text)]
    /\ UNCHANGED <<store, now, pc, reqVars, conversation, loopVars, connection,
                   sql_text, calls>>

NextGate ==
    \/ TypeSql
    \/ PasteSql
    \/ CallGate

SpecGate == InitSeq /\ [][NextGate]_vars

(***************************************************************************)
(* Properties.                                                             *)
(***************************************************************************)
Returned(r) == pc[r] = "returned"

\* the decision carries a type field with this value
HasType(d, t) == "type" \in DOMAIN d /\ d.type = t

\* the turns of request r that have a decision
Turns(r) == 1..Len(DecisionsOf(r))

\* the calls of request r to op in turn n
CallsIn(r, op, n) == SelectSeq(calls[r], LAMBDA c : c.op = op /\ c.turn = n)

\* the six keywords, in capital and in small letters
KeywordsInCapitals ==
    << <<"I","N","S","E","R","T">>, <<"U","P","D","A","T","E">>,
       <<"D","E","L","E","T","E">>, <<"D","R","O","P">>,
       <<"C","R","E","A","T","E">>, <<"A","L","T","E","R">> >>
KeywordsInSmall ==
    << <<"i","n","s","e","r","t">>, <<"u","p","d","a","t","e">>,
       <<"d","e","l","e","t","e">>, <<"d","r","o","p">>,
       <<"c","r","e","a","t","e">>, <<"a","l","t","e","r">> >>

\* the text holds a forbidden keyword in some letter case
MentionsForbidden(q) ==
    \E k \in DOMAIN KeywordsInCapitals :
        \E i \in 0..(Len(q) - Len(KeywordsInCapitals[k])) :
            \A j \in 1..Len(KeywordsInCapitals[k]) :
                \/ q[i + j] = KeywordsInCapitals[k][j]
                \/ q[i + j] = KeywordsInSmall[k][j]

\* the text has no character but white space
IsBlank(q) == \A i \in DOMAIN q : q[i] \in {" ", "\t", "\n", "\r"}

\* a type=sql decision with a non-blank query the gate rejects
IsRejectedSql(d) ==
    /\ HasType(d, "sql")
    /\ ~IsBlank(QueryOf(d))
    /\ MentionsForbidden(QueryOf(d))

\* a type=sql decision with a non-blank query free of forbidden keywords
IsAcceptedSql(d) ==
    /\ HasType(d, "sql")
    /\ ~IsBlank(QueryOf(d))
    /\ ~MentionsForbidden(QueryOf(d))

\* a type=sql decision with a blank query, or an unrecognized type
IsFallback(d) ==
    \/ HasType(d, "sql") /\ IsBlank(QueryOf(d))
    \/ "type" \in DOMAIN d /\ d.type \notin {"chat", "sql", "done"}

\* C1 as stated: whenever a /chat invocation has ended and none of its
\* decisions had type chat or done, it returned (no exception escaped) after
\* exactly MULTI_TURN_ITERATION_MAX turns.
C1_NoChatNoDoneRunsEightTurns ==
    \A r \in Requests :
        (/\ Finished(r)
         /\ \A n \in Turns(r) : /\ "type" \in DOMAIN DecisionsOf(r)[n]
                                /\ DecisionsOf(r)[n].type \notin {"chat", "done"})
        => Returned(r) /\ turn_count[r] = MULTI_TURN_ITERATION_MAX

\* C1 as amended: no invocation makes more than MULTI_TURN_ITERATION_MAX
\* decision calls, and an invocation all of whose decisions are accepted sql
\* decisions that execute ends by returning, after exactly
\* MULTI_TURN_ITERATION_MAX turns.
C1_AcceptedSqlRunsEightTurns ==
    \A r \in Requests :
        /\ Len(DecisionsOf(r)) <= MULTI_TURN_ITERATION_MAX
        /\ turn_count[r] <= MULTI_TURN_ITERATION_MAX
        /\ (/\ Finished(r)
            /\ \A n \in Turns(r) : /\ IsAcceptedSql(DecisionsOf(r)[n])
                                   /\ DataDb(QueryOf(DecisionsOf(r)[n])).ok)
           => Returned(r) /\ turn_count[r] = MULTI_TURN_ITERATION_MAX

\* an invocation returned at the cap after eight executed sql turns
C1_Witness ==
    \E r \in Requests :
        /\ Returned(r)
        /\ turn_count[r] = MULTI_TURN_ITERATION_MAX
        /\ Len(CallsOf(r, "execute_sql")) = MULTI_TURN_ITERATION_MAX
        /\ \A n \in Turns(r) : IsAcceptedSql(DecisionsOf(r)[n])

\* C2: in every invocation that has returned, turns_executed is between 1 and
\* MULTI_TURN_ITERATION_MAX, the number of decision calls equals
\* turns_executed, and each turn has at most one executor call.
C2_OneDecisionPerTurn ==
    \A r \in Requests :
        Returned(r) =>
            /\ 1 <= Response(r).turns_executed
            /\ Response(r).turns_executed <= MULTI_TURN_ITERATION_MAX
            /\ Len(CallsOf(r, "llm")) = Response(r).turns_executed
            /\ \A i \in DOMAIN CallsOf(r, "llm") : CallsOf(r, "llm")[i].turn = i
            /\ \A n \in 1..Response(r).turns_executed :
                   Len(CallsIn(r, "execute_sql", n)) <= 1
            /\ Len(CallsOf(r, "execute_sql")) <= Response(r).turns_executed

\* an invocation returned after three turns, two of them with an executor call
C2_Witness ==
    \E r \in Requests :
        /\ Returned(r)
        /\ turn_count[r] = 3
        /\ Len(CallsOf(r, "execute_sql")) = 2

\* C3: the first turn n whose decision has type chat or done is the last one:
\* no decision call and no executor call follows it, and the response has
\* turns_executed = n, that decision's type and that decision's reply.  A
\* first decision of type chat with reply and no query gives the response
\* {chat, reply, "", [], [], 1}.
C3_ChatOrDoneEndsTheLoop ==
    \A r \in Requests : \A n \in Turns(r) :
        LET d == DecisionsOf(r)[n]
        IN  (HasType(d, "chat") \/ HasType(d, "done")) =>
                /\ n = Len(DecisionsOf(r))
                /\ CallsIn(r, "execute_sql", n) = <<>>
                /\ pc[r] \in {"raw", "dispatch", "returned"}
                /\ Returned(r) =>
                    /\ Response(r).turns_executed = n
                    /\ Response(r).type = d.type
                    /\ Response(r).final_message = ReplyOf(d)
                    /\ (n = 1 /\ d.type = "chat" /\ QueryOf(d) = QNone) =>
                           Response(r) = [type |-> "chat",
                                          final_message |-> ReplyOf(d),
                                          last_query |-> QNone,
                                          last_results |-> <<>>,
                                          sql_history |-> <<>>,
                                          turns_executed |-> 1]

\* an invocation returned on a done decision that followed two sql turns
C3_Witness ==
    \E r \in Requests :
        /\ Returned(r)
        /\ Len(DecisionsOf(r)) = 3
        /\ HasType(DecisionsOf(r)[3], "done")
        /\ Len(sql_history[r]) = 2

\* C4: a type=sql decision of turn n with a non-blank query the gate rejects
\* stops the loop at turn n: the query is not executed, no merge call, no
\* message other than the raw decision and no sql_history entry belongs to
\* turn n, and the response has type chat, the rejection text and
\* turns_executed = n.
C4_RejectedQueryStopsTheLoop ==
    \A r \in Requests : \A n \in Turns(r) :
        LET d == DecisionsOf(r)[n]
        IN  IsRejectedSql(d) =>
                /\ n = Len(DecisionsOf(r))
                /\ \A i \in DOMAIN calls[r] :
                       calls[r][i].op = "execute_sql" => calls[r][i].arg # QueryOf(d)
                /\ CallsIn(r, "execute_sql", n) = <<>>
                /\ CallsIn(r, "merge", n) = <<>>
                /\ Len(CallsIn(r, "insert_message", n)) <= 1
                /\ \A i \in DOMAIN sql_history[r] : sql_history[r][i].turn # n
                /\ pc[r] \in {"raw", "dispatch", "returned"}
                /\ Returned(r) =>
                    /\ Response(r).type = "chat"
                    /\ Response(r).final_message = RejectionMessage
                    /\ Response(r).turns_executed = n

\* an invocation returned on a query rejected in its third turn, the keyword
\* in mixed case
C4_Witness ==
    \E r \in Requests :
        /\ Returned(r)
        /\ Len(DecisionsOf(r)) = 3
        /\ IsRejectedSql(DecisionsOf(r)[3])
        /\ QueryOf(DecisionsOf(r)[3]) = QDropMixed

\* C5: every string passed to the executor is the query of the type=sql
\* decision of that turn, is non-blank, was accepted by the gate just before
\* the call, and holds no forbidden keyword in any letter case.
C5_OnlyAcceptedQueriesExecuted ==
    \A r \in Requests : \A i \in DOMAIN calls[r] :
        calls[r][i].op = "execute_sql" =>
            LET q == calls[r][i].arg
                n == calls[r][i].turn
                d == DecisionsOf(r)[n]
            IN  /\ n \in Turns(r)
                /\ HasType(d, "sql")
                /\ "query" \in DOMAIN d
                /\ d.query = q
                /\ ~IsBlank(q)
                /\ i > 1
                /\ calls[r][i - 1].op = "is_read_only_sql"
                /\ calls[r][i - 1].turn = n
                /\ calls[r][i - 1].arg = <<q, TRUE>>
                /\ ~MentionsForbidden(q)

\* the executor was called in a run in which the LLM also asked for a
\* query with a keyword in mixed case
C5_Witness ==
    \E r \in Requests :
        /\ Len(CallsOf(r, "execute_sql")) >= 2
        /\ \E n \in Turns(r) : QueryOf(DecisionsOf(r)[n]) = QDropMixed

\* C6 as stated: when an invocation ends on a chat or done turn, or on a
\* rejected query, last_query of the response is not taken from the final
\* decision: it is empty or the query of the last executed turn.
C6_FinalQueryIgnored ==
    \A r \in Requests :
        (/\ Returned(r)
         /\ LET d == DecisionsOf(r)[Len(DecisionsOf(r))]
            IN  HasType(d, "chat") \/ HasType(d, "done") \/ IsRejectedSql(d))
        => \/ Response(r).last_query = QNone
           \/ /\ sql_history[r] # <<>>
              /\ Response(r).last_query =
                     sql_history[r][Len(sql_history[r])].query

\* C7: a type=sql decision with a blank query, or a decision with an
\* unrecognized type, ends the loop at its turn n: no executor call in turn
\* n, no further decision call, no exception, and the response has the
\* fallback text and turns_executed = n.
C7_MalformedDecisionEndsTheLoop ==
    \A r \in Requests : \A n \in Turns(r) :
        LET d == DecisionsOf(r)[n]
        IN  IsFallback(d) =>
                /\ n = Len(DecisionsOf(r))
                /\ CallsIn(r, "execute_sql", n) = <<>>
                /\ CallsIn(r, "is_read_only_sql", n) = <<>>
                /\ pc[r] \in {"raw", "dispatch", "loop", "returned"}
                /\ pc[r] = "loop" => ~LoopTest(r)
                /\ Returned(r) =>
                    /\ Response(r).final_message = FallbackMessage
                    /\ Response(r).turns_executed = n

\* an invocation returned on an unrecognized type that came with a query,
\* after two sql turns
C7_Witness ==
    \E r \in Requests :
        /\ Returned(r)
        /\ Len(DecisionsOf(r)) = 3
        /\ HasType(DecisionsOf(r)[3], "foo")
        /\ QueryOf(DecisionsOf(r)[3]) = QSelect

\* C8 as stated: the type of every response is chat, sql or done, and a
\* decision that takes the fallback path is reported with type chat.
C8_ResponseTypeIsChatSqlDone ==
    \A r \in Requests :
        Returned(r) =>
            /\ Response(r).type \in {"chat", "sql", "done"}
            /\ IsFallback(DecisionsOf(r)[Len(DecisionsOf(r))]) =>
                   Response(r).type = "chat"

PromptRows(s) ==
    {i \in DOMAIN store :
        /\ store[i].session_id = s
        /\ store[i].role = "system"
        /\ store[i].content = build_integrated_system_prompt}

\* the requests on session s that have read the conversation
LoadedOn(s) == {r \in Requests : sessionId[r] = s /\ CallsOf(r, "get_conversation") # <<>>}

\* request r has inserted the system prompt
Seeded(r) ==
    \E i \in DOMAIN calls[r] :
        /\ calls[r][i].op = "insert_message"
        /\ calls[r][i].arg = <<"system", build_integrated_system_prompt>>

\* C10: of the requests run one after the other on a session that had no
\* messages, the first inserts the system prompt, once; every later one
\* reads a non-empty history and inserts no system prompt, so the session
\* holds the prompt exactly once.
C10_SeededExactlyOnce ==
    \A s \in Sessions :
        LoadedOn(s) # {} =>
            LET first == Min(LoadedOn(s))
            IN  /\ pc[first] # "seed" => Seeded(first) /\ Cardinality(PromptRows(s)) = 1
                /\ \A r \in LoadedOn(s) \ {first} :
                       /\ CallsOf(r, "get_conversation")[1].arg # <<>>
                       /\ ~Seeded(r)
                       /\ pc[r] # "seed"

\* the second request on a session has returned, after a first request that
\* went through an executed sql turn
C10_Witness ==
    \E r1, r2 \in Requests :
        /\ r1 < r2
        /\ sessionId[r1] = sessionId[r2]
        /\ Len(sql_history[r1]) >= 1
        /\ Returned(r2)
        /\ Cardinality(PromptRows(sessionId[r2])) = 1

\* the rows of session s, in the order of their insertion
SessionRows(s) == SelectSeq(store, LAMBDA m : m.session_id = s)

\* the row holds the system prompt
IsPromptRow(m) ==
    m.role = "system" /\ m.content = build_integrated_system_prompt

\* the first read of request r found its session empty
ReadEmpty(r) ==
    /\ CallsOf(r, "get_conversation") # <<>>
    /\ CallsOf(r, "get_conversation")[1].arg = <<>>

\* C11 as stated: with /chat requests in flight together, interleaved in any
\* way, the first message of every non-empty session is the system prompt
\* and the session holds the prompt exactly once.
C11_PromptFirstAndOnce ==
    \A s \in Sessions :
        SessionRows(s) # <<>> =>
            /\ IsPromptRow(SessionRows(s)[1])
            /\ Cardinality(PromptRows(s)) = 1

\* C11 as amended: with /chat requests in flight together, interleaved in any
\* way, the first message stored for a non-empty session is the system
\* prompt, and the session holds the prompt once for every request that read
\* the session while it was empty and has gone past the seeding, so at least
\* once; a request that read a non-empty session inserts no prompt.
C11_PromptFirstOncePerEmptyRead ==
    \A s \in Sessions :
        /\ SessionRows(s) # <<>> =>
            /\ IsPromptRow(SessionRows(s)[1])
            /\ Cardinality(PromptRows(s)) >= 1
        /\ Cardinality(PromptRows(s)) =
               Cardinality({r \in Requests : sessionId[r] = s /\ Seeded(r)})
        /\ \A r \in Requests :
               (sessionId[r] = s /\ pc[r] \notin {"idle", "load"}) =>
                   /\ Seeded(r) => ReadEmpty(r)
                   /\ (ReadEmpty(r) /\ pc[r] # "seed") => Seeded(r)

\* two requests on one session have returned, both after seeding it, one of
\* them after an executed sql turn
C11_Witness ==
    /\ sessionId[1] = sessionId[2]
    /\ Returned(1) /\ Returned(2)
    /\ Seeded(1) /\ Seeded(2)
    /\ Cardinality(PromptRows(sessionId[1])) = 2
    /\ Len(sql_history[1]) = 1

\* the {role, content} pairs of rows
Pairs(rows) ==
    [i \in DOMAIN rows |-> [role |-> rows[i].role, content |-> rows[i].content]]

\* a is a prefix of b
IsPrefix(a, b) == Len(a) <= Len(b) /\ \A i \in DOMAIN a : a[i] = b[i]

C14_UnknownSessionReadsEmpty ==
    response.op = "get_conversation" =>
        /\ store = response.before
        /\ (\A i \in DOMAIN response.before :
                response.before[i].session_id # response.session_id)
           => /\ response.result = <<>>
              /\ \A tie \in TieOrders :
                     get_conversation(store, response.session_id, tie) = <<>>

\* a session without messages was read while the other session held the
\* messages of a request and of a direct insert
C14_Witness ==
    /\ response.op = "get_conversation"
    /\ response.result = <<>>
    /\ SessionRows(response.session_id) = <<>>
    /\ Len(store) >= 4
    /\ \E i \in DOMAIN store : store[i].content = DirectContent

\* C20: GET /chat_history/{sessionId} returns the session id and the stored
\* messages of the session without the system messages: every user and
\* assistant message, in the stored order, no seeded prompt and no
\* query_results message; the table is as it was before the call.
C20_HistoryIsLogWithoutSystem ==
    response.op = "chat_history" =>
        LET kept == SelectSeq(SessionRows(response.session_id),
                              LAMBDA m : m.role # "system")
            messages == response.result.messages
        IN  /\ store = response.before
            /\ response.result.sessionId = response.session_id
            /\ Len(messages) = Len(kept)
            /\ \A i \in DOMAIN messages :
                   /\ messages[i].role = kept[i].role
                   /\ messages[i].content = kept[i].content
                   /\ messages[i].created_at = kept[i].created_at
                   /\ messages[i].role \in {"user", "assistant"}

\* the history was read of a session that holds the prompt, a query_results
\* message and a system message of a direct insert, after the clock moved
C20_Witness ==
    /\ response.op = "chat_history"
    /\ LET rows == SessionRows(response.session_id)
       IN  /\ \E i \in DOMAIN rows : IsPromptRow(rows[i])
           /\ \E i \in DOMAIN rows :
                  rows[i].content = JsonDumps([query_results |-> Rows1])
           /\ \E i \in DOMAIN rows :
                  rows[i].role = "system" /\ rows[i].content = DirectContent
           /\ rows[Len(rows)].created_at > rows[1].created_at
           /\ Len(response.result.messages) >= 4

\* str.upper makes the capital letter K of the character c
IsLetter(c, k, j) ==
    \/ c = KeywordsInCapitals[k][j]
    \/ c = KeywordsInSmall[k][j]
    \/ c = "long s" /\ KeywordsInCapitals[k][j] = "S"
    \/ c = "dotless i" /\ KeywordsInCapitals[k][j] = "I"

\* the upper-cased text holds one of the six keywords
UpperCasedMentionsForbidden(q) ==
    \E k \in DOMAIN KeywordsInCapitals :
        \E i \in 0..(Len(q) - Len(KeywordsInCapitals[k])) :
            \A j \in 1..Len(KeywordsInCapitals[k]) : IsLetter(q[i + j], k, j)

\* C15: is_read_only_sql(s) is false exactly when the upper-cased s holds one
\* of INSERT, UPDATE, DELETE, DROP, CREATE, ALTER somewhere, also inside a
\* longer word or a string literal, and true otherwise; it is true of
\* "SELECT * FROM Products" and false of
\* "select * from products; DROP TABLE Products".
C15_GateRejectsExactlyTheKeywords ==
    response.op = "is_read_only_sql" =>
        /\ response.result = ~UpperCasedMentionsForbidden(response.arg)
        /\ response.arg = SqlSelectProducts => response.result = TRUE
        /\ response.arg \in {SqlSelectThenDrop, SqlUpdatedAt, SqlLiteralDelete,
                             SqlCreate, SqlAlter, SqlLongSInsert,
                             SqlDotlessIInsert}
               => response.result = FALSE
        /\ response.arg = SqlNearMisses => response.result = TRUE

\* the gate has answered for the text that drops a table after a select
C15_Witness ==
    /\ response.op = "is_read_only_sql"
    /\ response.arg = SqlSelectThenDrop
    /\ response.result = FALSE

\* request r is inside utils.execute_sql
InExecuteSql(r) == pc[r] \in {"cursor", "finally", "finally_raise"}

\* the calls of utils.execute_sql request r has begun: one after every
\* query the gate accepted, once the request has gone on from the gate
ExecuteSqlCalls(r) ==
    Len(SelectSeq(calls[r], LAMBDA c : c.op = "is_read_only_sql" /\ c.arg[2]))
        - (IF pc[r] = "execute" THEN 1 ELSE 0)

\* C16: every call of utils.execute_sql executes its statement exactly once,
\* and whenever control is outside the function no connection is open: the
\* connection a call opened is closed when the call returns rows, returns no
\* rows, or raises.
C16_ConnectionClosedOnEveryPath ==
    \A r \in Requests :
        /\ ~InExecuteSql(r) => connection[r] # "open"
        /\ InExecuteSql(r) => connection[r] = "open"
        /\ (~InExecuteSql(r) /\ ExecuteSqlCalls(r) > 0) => connection[r] = "closed"
        /\ Len(CallsOf(r, "execute_sql")) =
               ExecuteSqlCalls(r) - (IF pc[r] = "cursor" THEN 1 ELSE 0)
        /\ \A n \in 1..turn_count[r] : Len(CallsIn(r, "execute_sql", n)) <= 1

\* a request has left execute_sql by each path: with rows in its first
\* turn, with no rows in its second, with an error in its third
C16_Witness ==
    \E r \in Requests :
        /\ pc[r] = "raised"
        /\ connection[r] = "closed"
        /\ Len(sql_history[r]) = 2
        /\ sql_history[r][1].results = Rows1
        /\ sql_history[r][2].results = <<>>
        /\ Len(CallsOf(r, "execute_sql")) = 3

\* C17: when utils.execute_sql fails for the accepted query of turn n, the
\* error leaves the invocation at once: the query was executed once, no
\* decision call follows, and turn n has no merge call, no message but the
\* raw decision, and no sql_history entry.
C17_ExecutorFailureLeavesAtOnce ==
    \A r \in Requests : \A n \in Turns(r) :
        LET d == DecisionsOf(r)[n]
        IN  (/\ IsAcceptedSql(d)
             /\ ~DataDb(QueryOf(d)).ok
             /\ CallsIn(r, "execute_sql", n) # <<>>)
            => /\ n = Len(DecisionsOf(r))
               /\ Len(CallsIn(r, "execute_sql", n)) = 1
               /\ calls[r][Len(calls[r])].op = "execute_sql"
               /\ CallsIn(r, "merge", n) = <<>>
               /\ Len(CallsIn(r, "insert_message", n)) = 1
               /\ \A i \in DOMAIN sql_history[r] : sql_history[r][i].turn # n
               /\ Len(sql_history[r]) = n - 1
               /\ pc[r] \in {"finally_raise", "raised"}
               /\ ~Returned(r)

\* the third query of an invocation failed, after two executed sql turns
C17_Witness ==
    \E r \in Requests :
        /\ pc[r] = "raised"
        /\ Len(DecisionsOf(r)) = 3
        /\ QueryOf(DecisionsOf(r)[3]) = QBad
        /\ Len(sql_history[r]) = 2

\* an accepted sql decision whose query executes
ExecutedSql(d) == IsAcceptedSql(d) /\ DataDb(QueryOf(d)).ok

\* C18: an invocation whose first k decisions are accepted, executed sql
\* turns and whose decision k+1 is done with reply r returns turns_executed
\* = k+1, type done, final_message = r, and a sql_history of k entries with
\* the turns 1..k in order, entry i with the query and the results of turn i.
C18_SqlTurnsThenDone ==
    \A r \in Requests :
        LET ds == DecisionsOf(r)
            k == Len(ds) - 1
        IN  (/\ Returned(r)
             /\ HasType(ds[k + 1], "done")
             /\ \A i \in 1..k : ExecutedSql(ds[i]))
            => /\ k < MULTI_TURN_ITERATION_MAX
               /\ Response(r).turns_executed = k + 1
               /\ Response(r).type = "done"
               /\ Response(r).final_message = ReplyOf(ds[k + 1])
               /\ Len(Response(r).sql_history) = k
               /\ \A i \in 1..k :
                      /\ Response(r).sql_history[i].turn = i
                      /\ Response(r).sql_history[i].query = QueryOf(ds[i])
                      /\ Response(r).sql_history[i].results =
                             DataDb(QueryOf(ds[i])).rows

\* an invocation returned on a done decision in its eighth turn, after seven
\* sql turns, not all with the same query
C18_Witness ==
    \E r \in Requests :
        /\ Returned(r)
        /\ Len(DecisionsOf(r)) = MULTI_TURN_ITERATION_MAX
        /\ HasType(DecisionsOf(r)[MULTI_TURN_ITERATION_MAX], "done")
        /\ Len(sql_history[r]) = MULTI_TURN_ITERATION_MAX - 1
        /\ sql_history[r][3].query = QAlt
        /\ sql_history[r][4].query = QSelect

\* C19: an invocation whose eight turns are all accepted, executed sql turns
\* returns a response, with what the eighth turn produced: type sql, the
\* merged message of turn 8, the query and the results of turn 8, a
\* sql_history of 8 entries and turns_executed = 8; no invocation makes a
\* ninth decision call.
C19_CapReturnsTheEighthTurn ==
    \A r \in Requests :
        LET ds == DecisionsOf(r)
            cap == MULTI_TURN_ITERATION_MAX
        IN  /\ Len(ds) <= cap
            /\ (/\ Len(ds) = cap
                /\ \A i \in 1..cap : ExecutedSql(ds[i])
                /\ pc[r] = "loop")
               => ~LoopTest(r)
            /\ (/\ Len(ds) = cap
                /\ \A i \in 1..cap : ExecutedSql(ds[i])
                /\ Finished(r))
               => /\ Returned(r)
                  /\ Response(r).type = "sql"
                  /\ Len(CallsIn(r, "merge", cap)) = 1
                  /\ Response(r).final_message = CallsIn(r, "merge", cap)[1].arg[2]
                  /\ Response(r).last_query = QueryOf(ds[cap])
                  /\ Response(r).last_results = DataDb(QueryOf(ds[cap])).rows
                  /\ Len(Response(r).sql_history) = cap
                  /\ Response(r).sql_history[cap].turn = cap
                  /\ Response(r).turns_executed = cap

\* an invocation returned at the cap, the merged message of its eighth turn
\* another than that of its seventh
C19_Witness ==
    \E r \in Requests :
        /\ Returned(r)
        /\ turn_count[r] = MULTI_TURN_ITERATION_MAX
        /\ Len(sql_history[r]) = MULTI_TURN_ITERATION_MAX
        /\ Response(r).final_message # UsualMerged
        /\ sql_history[r][MULTI_TURN_ITERATION_MAX - 1].steps = UsualMerged

\* C21 as stated: last_query of every /chat response is the last query the
\* invocation executed: the query of the last sql_history entry, or empty
\* when the invocation executed no query.
C21_LastQueryIsLastExecuted ==
    \A r \in Requests :
        Returned(r) =>
            Response(r).last_query =
                IF sql_history[r] = <<>> THEN QNone
                ELSE sql_history[r][Len(sql_history[r])].query

\* the messages request r has appended to its session so far, in order
Appended(r) ==
    LET ins == CallsOf(r, "insert_message")
    IN  [i \in DOMAIN ins |->
            [session_id |-> sessionId[r], role |-> ins[i].arg[1],
             content |-> ins[i].arg[2], turn |-> ins[i].turn]]

\* the last k rows of the table, without their created_at
LastRows(k) ==
    [i \in 1..k |->
        LET m == store[Len(store) - k + i]
        IN  [session_id |-> m.session_id, role |-> m.role, content |-> m.content]]

\* the messages of Appended(r), without their turn
AsRows(ms) ==
    [i \in DOMAIN ms |->
        [session_id |-> ms[i].session_id, role |-> ms[i].role,
         content |-> ms[i].content]]

\* the conversation request r read at its start (main.py:318): its first call
ReadAtStart(r) == calls[r][1].arg

\* the content is a serialized decision object
IsRawDecision(content) == content[1] = "json" /\ "query_results" \notin DOMAIN content[2]

\* the call is the insert of a raw decision
IsRawInsert(c) ==
    /\ c.op = "insert_message"
    /\ c.arg[1] = "assistant"
    /\ IsRawDecision(c.arg[2])

\* the raw-decision assistant messages among the messages ms
RawDecisionsIn(ms) ==
    Cardinality({j \in DOMAIN ms :
        ms[j].role = "assistant" /\ IsRawDecision(ms[j].content)})

\* C22: in every turn, whatever the decision, the next thing the invocation
\* does after the decision call is to append the full serialized decision
\* object to the session as one assistant message: when the turn is
\* classified and dispatched, the decision call and that insert are the
\* last two calls of the invocation, the message is the last row of the
\* table, and a gate check or an exit of the loop comes after it.  Between
\* turns and at the end the invocation has appended exactly one
\* raw-decision message per executed turn, and the session holds as many as
\* at the start of the request and one more per executed turn.
C22_RawDecisionPersistedFirst ==
    \A r \in Requests :
        LET n == Len(calls[r])
            raw == Call("insert_message", turn_count[r],
                        <<"assistant", JsonDumps(data[r])>>)
        IN  /\ pc[r] = "raw" =>
                   calls[r][n] = Call("llm", turn_count[r], data[r])
            /\ pc[r] = "dispatch" =>
                   /\ calls[r][n - 1] = Call("llm", turn_count[r], data[r])
                   /\ calls[r][n] = raw
                   /\ store[Len(store)] =
                          [session_id |-> sessionId[r], role |-> "assistant",
                           content |-> JsonDumps(data[r]),
                           created_at |-> store[Len(store)].created_at]
            /\ (n > 0 /\ calls[r][n].op = "is_read_only_sql") =>
                   calls[r][n - 1] = raw
            /\ (Returned(r) /\ turn_count[r] > 0) =>
                   \/ calls[r][n] = raw
                   \/ calls[r][n] = Call("is_read_only_sql", turn_count[r],
                                         <<gpt_query(r), FALSE>>)
                      /\ calls[r][n - 1] = raw
                   \/ calls[r][n].op = "insert_message"
                      /\ calls[r][n].arg[1] = "system"
                      /\ calls[r][n - 5] = raw
            /\ (pc[r] = "loop" \/ Finished(r)) =>
                   /\ Cardinality({i \in 1..n : calls[r][i].op = "llm"}) = turn_count[r]
                   /\ Cardinality({i \in 1..n : IsRawInsert(calls[r][i])}) = turn_count[r]
                   /\ \A i \in 1..n :
                          IsRawInsert(calls[r][i]) =>
                              /\ calls[r][i - 1].op = "llm"
                              /\ calls[r][i - 1].turn = calls[r][i].turn
                              /\ calls[r][i].arg[2] = JsonDumps(calls[r][i - 1].arg)
                   /\ RawDecisionsIn(SessionRows(sessionId[r]))
                          = RawDecisionsIn(ReadAtStart(r)) + turn_count[r]

\* an invocation has returned on a rejected query in its third turn, after
\* two executed sql turns; the last row of the table is the raw decision of
\* the rejected turn
C22_Witness ==
    \E r \in Requests :
        /\ Returned(r)
        /\ turn_count[r] = 3
        /\ Len(sql_history[r]) = 2
        /\ IsRejectedSql(DecisionsOf(r)[3])
        /\ store[Len(store)].content = JsonDumps(DecisionsOf(r)[3])

\* turn n of request r is over
TurnOver(r, n) ==
    \/ n < turn_count[r]
    \/ n = turn_count[r] /\ pc[r] \in {"loop", "returned"}

\* request r has just completed a turn in which it executed a query
SqlTurnCompleted(r) ==
    /\ pc[r] = "loop"
    /\ turn_count[r] > 0
    /\ calls[r][Len(calls[r])].op = "insert_message"
    /\ calls[r][Len(calls[r])].arg[1] = "system"
    /\ calls[r][Len(calls[r])].turn = turn_count[r]

\* C23: when an accepted and successfully executed sql turn n is completed,
\* the session log has gained exactly three messages in it, in this order:
\* the assistant raw decision, the assistant merged message, the system
\* message serializing {query_results: results}; sql_history has gained one
\* entry {turn: n, query, results, steps: merged message}; and if n < 8 the
\* loop test passes, so that the next step is another decision call, whose
\* message list ends with that query_results message.  Every turn with an
\* accepted query that executes is completed in this way or is still under
\* way.
C23_ExecutedSqlTurnAddsThreeMessages ==
    \A r \in Requests :
        LET len == Len(calls[r])
            n == turn_count[r]
            d == data[r]
            q == QueryOf(d)
            rows == DataDb(q).rows
            results_msg == JsonDumps([query_results |-> rows])
            merged_msg == calls[r][len - 2].arg[2]
            Row(role, content, j) ==
                [session_id |-> sessionId[r], role |-> role, content |-> content,
                 created_at |-> store[j].created_at]
        IN  /\ (pc[r] = "loop" /\ n > 0 /\ ExecutedSql(d)) => SqlTurnCompleted(r)
            /\ (Finished(r) /\ ExecutedSql(d)) =>
                   /\ Returned(r)
                   /\ n = MULTI_TURN_ITERATION_MAX
            /\ SqlTurnCompleted(r) =>
                   /\ ExecutedSql(d)
                   /\ len >= 8
                   /\ calls[r][len - 7].turn = n - 1
                   /\ calls[r][len - 6] = Call("llm", n, d)
                   /\ calls[r][len - 5] =
                          Call("insert_message", n, <<"assistant", JsonDumps(d)>>)
                   /\ calls[r][len - 4] = Call("is_read_only_sql", n, <<q, TRUE>>)
                   /\ calls[r][len - 3] = Call("execute_sql", n, q)
                   /\ calls[r][len - 2] = Call("merge", n, <<q, merged_msg>>)
                   /\ calls[r][len - 1] =
                          Call("insert_message", n, <<"assistant", merged_msg>>)
                   /\ calls[r][len] =
                          Call("insert_message", n, <<"system", results_msg>>)
                   /\ Len(store) >= 3
                   /\ store[Len(store) - 2] =
                          Row("assistant", JsonDumps(d), Len(store) - 2)
                   /\ store[Len(store) - 1] =
                          Row("assistant", merged_msg, Len(store) - 1)
                   /\ store[Len(store)] = Row("system", results_msg, Len(store))
                   /\ Len(SessionRows(sessionId[r])) =
                          Len(ReadAtStart(r))
                          + Cardinality({i \in 1..len : calls[r][i].op = "insert_message"})
                   /\ sql_history[r] # <<>>
                   /\ sql_history[r][Len(sql_history[r])] =
                          [turn |-> n, query |-> q, results |-> rows,
                           steps |-> merged_msg]
                   /\ \A k \in 1..(Len(sql_history[r]) - 1) :
                          sql_history[r][k].turn < n
                   /\ n < MULTI_TURN_ITERATION_MAX =>
                          /\ AtDecisionCall(r)
                          /\ messages_passed(r)[Len(messages_passed(r))] =
                                 [role |-> "system", content |-> results_msg]

\* after two executed sql turns with different queries and results, the
\* invocation is about to make its third decision call
C23_Witness ==
    \E r \in Requests :
        /\ AtDecisionCall(r)
        /\ turn_count[r] = 2
        /\ Len(sql_history[r]) = 2
        /\ sql_history[r][1].query = QAlt
        /\ sql_history[r][2].query = QSelect
        /\ sql_history[r][2].results = Rows1

ReturnedExecutions(r) ==
    Cardinality({i \in DOMAIN calls[r] :
        /\ calls[r][i].op = "execute_sql"
        /\ DataDb(calls[r][i].arg).ok
        /\ ~(i = Len(calls[r]) /\ pc[r] = "finally")})

\* C25: in every /chat response last_results is [] when sql_history is empty
\* and the results of the last sql_history entry otherwise, and sql_history
\* has as many entries as calls of the executor returned successfully during
\* the invocation.
C25_LastResultsAgreeWithHistory ==
    \A r \in Requests :
        Returned(r) =>
            /\ Response(r).last_results =
                   IF sql_history[r] = <<>> THEN <<>>
                   ELSE sql_history[r][Len(sql_history[r])].results
            /\ Len(Response(r).sql_history) = ReturnedExecutions(r)

\* a response after three executed sql turns, the second with rows, the
\* third without, and a rejected query in the fourth turn
C25_Witness ==
    \E r \in Requests :
        /\ Returned(r)
        /\ Len(sql_history[r]) = 3
        /\ sql_history[r][2].results = Rows1
        /\ sql_history[r][3].results = <<>>
        /\ turn_count[r] = 4
        /\ IsRejectedSql(DecisionsOf(r)[4])

\* C26: an invocation that returns a response has appended s + 1 +
\* turns_executed + 2 * |sql_history| messages to its session, where s is 1
\* if the session was empty at the start and 0 otherwise: its session holds
\* that many rows more than at the start.  Exactly one of the messages is a
\* user message, and it precedes every message appended by the loop.
C26_AppendedMessageCount ==
    \A r \in Requests :
        Returned(r) =>
            LET ms == Appended(r)
                s == IF ReadAtStart(r) = <<>> THEN 1 ELSE 0
                users == {i \in DOMAIN ms : ms[i].role = "user"}
            IN  /\ Len(ms) = s + 1 + Response(r).turns_executed
                                 + 2 * Len(Response(r).sql_history)
                /\ Len(SessionRows(sessionId[r])) = Len(ReadAtStart(r)) + Len(ms)
                /\ LastRows(Len(ms)) = AsRows(ms)
                /\ Cardinality(users) = 1
                /\ \A i \in DOMAIN ms :
                       /\ i \in users => ms[i].turn = 0
                       /\ ms[i].turn >= 1 => \A u \in users : u < i
                /\ s = 1 => ms[1].role = "system" /\ 1 \notin users

\* a response on a session that held an earlier conversation, after two
\* executed sql turns and a done turn: 0 + 1 + 3 + 2 * 2 messages
C26_Witness ==
    \E r \in Requests :
        /\ Returned(r)
        /\ ReadAtStart(r) # <<>>
        /\ turn_count[r] = 3
        /\ Len(sql_history[r]) = 2
        /\ Len(Appended(r)) = 8

\* the message is stored under session s
StoredUnder(msg, s) ==
    \E j \in DOMAIN store :
        /\ store[j].session_id = s
        /\ store[j].role = msg.role
        /\ store[j].content = msg.content

\* the step is a step of a /chat request on session A, or a call of
\* insert_message on session A
ActsOn(A) ==
    \/ \E r \in Requests : pc'[r] # pc[r] /\ sessionId'[r] = A
    \/ /\ response' # response
       /\ response'.op = "insert_message"
       /\ response'.session_id = A

\* C27: a step of a /chat request on session A, and a call of insert_message
\* on session A, leave the rows of every other session B as they were (and
\* with them what get_conversation selects for B): whenever the table
\* changes, the step acts on one session, which gains one row, and no other
\* session changes.  And every message of the list a /chat request on A
\* passes to the LLM is stored under A.
C27_SessionsIsolated ==
    [][/\ store' # store =>
            \E A \in Sessions :
                /\ ActsOn(A)
                /\ \A C \in Sessions \ {A} : ~ActsOn(C)
                /\ Len(SessionRows(A)') = Len(SessionRows(A)) + 1
                /\ \A B \in Sessions \ {A} : SessionRows(B)' = SessionRows(B)
       /\ \A r \in Requests :
            (AtDecisionCall(r)' /\ (pc'[r] # pc[r] \/ store' # store)) =>
                \A i \in DOMAIN messages_passed(r)' :
                    StoredUnder(messages_passed(r)[i], sessionId[r])'
      ]_vars

\* a /chat request on s1 has returned after an executed sql turn, on a table
\* whose first row was inserted under s2 and whose last row was inserted
\* under s2 after the request
C27_Witness ==
    /\ Returned(1)
    /\ sessionId[1] = "s1"
    /\ Len(sql_history[1]) = 1
    /\ store[1].session_id = "s2"
    /\ store[1].content = DirectContent
    /\ store[Len(store)].session_id = "s2"
    /\ store[Len(store)].content = DirectContent
    /\ Len(SessionRows("s2")) = 2

(***************************************************************************)
(* The other endpoints that reach utils.execute_sql: POST /execute-sql and *)
(* POST /check-and-execute, next to one /chat request.  response is what   *)
(* the handler returned, with the calls it made.                           *)
(***************************************************************************)
SqlDropProducts ==
    <<"D","R","O","P"," ","T","A","B","L","E"," ","P","r","o","d","u","c","t","s">>
SqlDeleteFromStores ==
    <<"d","e","l","e","t","e"," ","f","r","o","m"," ","S","t","o","r","e","s">>

\* the sql field of the bodies a client posts to /execute-sql
RequestSql == {QSelect, QBad, SqlSelectProducts, SqlDropProducts, SqlDeleteFromStores}

\* the texts the LLM may return to utils.generate_sql_query
GeneratedContents == {QSelect, <<" ">> \o SqlSelectProducts \o <<"\n">>,
                      SqlDeleteFromStores, QBad}

\* utils.py:14-64: the LLM's text, stripped
generate_sql_query(content) == Strip(content)

\* utils.execute_sql as its caller sees it (utils.py:66-100): the rows, or
\* the sqlite3.Error it re-raises
execute_sql(sql) ==
    IF DataDb(sql).ok THEN [raised |-> FALSE, rows |-> DataDb(sql).rows]
    ELSE [raised |-> TRUE, rows |-> <<>>]

\* main.py:273-289: POST /execute-sql
ExecuteSqlEndpoint ==
    /\ \E sql \in RequestSql :
        /\ sql_text' = sql
        /\ response' = [op |-> "/execute-sql",
                        results |-> execute_sql(sql),
                        calls |-> << Call("execute_sql", 0, sql) >>]
    /\ UNCHANGED <<store, now, pc, reqVars, conversation, loopVars, connection,
                   calls>>

\* how the first LLM call of /check-and-execute may come out (main.py:174-199)
FirstCompletions == {"no tool call", "another tool", "no table or condition",
                     "quick_check_sql"}

\* main.py:95-251: POST /check-and-execute.  data_exists is what
\* utils.quick_check_sql returns at main.py:201: whether the table has a row
\* that meets the condition
CheckAndExecute ==
    /\ \E first \in FirstCompletions, data_exists \in BOOLEAN,
          content \in GeneratedContents :
        LET final_sql == generate_sql_query(content)
            first_call == << Call("llm", 0, first) >>
            check == first_call \o << Call("quick_check_sql", 0, data_exists),
                                      Call("llm", 0, "second") >>
        IN  response' =
                IF first # "quick_check_sql"
                THEN [op |-> "/check-and-execute", message |-> first,
                      calls |-> first_call]
                ELSE IF ~data_exists
                THEN [op |-> "/check-and-execute", message |-> "No data found",
                      calls |-> check]
                ELSE [op |-> "/check-and-execute", message |-> "Data found",
                      final_sql |-> final_sql,
                      results |-> execute_sql(final_sql),
                      calls |-> check \o << Call("generate_sql_query", 0, final_sql),
                                            Call("execute_sql", 0, final_sql) >>]
    /\ UNCHANGED <<store, now, pc, reqVars, conversation, loopVars, connection,
                   sql_text, calls>>

NextExec ==
    \/ ExecuteSqlEndpoint
    \/ CheckAndExecute
    \/ ArriveConc(1)
    \/ DecideConc(1)
    \/ Merge(1, {UsualMerged})
    \/ Step(1)

SpecExec == InitSeq /\ [][NextExec]_vars

\* every call of the executor in the history follows a call of the gate that
\* accepted the same string
Gated(history) ==
    \A i \in DOMAIN history :
        history[i].op = "execute_sql" =>
            /\ is_read_only_sql(history[i].arg)
            /\ \E j \in 1..(i - 1) :
                /\ history[j].op = "is_read_only_sql"
                /\ history[j].arg = <<history[i].arg, TRUE>>

\* C28 as stated: on every HTTP endpoint (/chat, /execute-sql,
\* /check-and-execute) no SQL string reaches utils.execute_sql unless
\* is_read_only_sql accepted it.
C28_GateGuardsEveryEndpoint ==
    /\ \A r \in Requests : Gated(calls[r])
    /\ response.op \in {"/execute-sql", "/check-and-execute"} => Gated(response.calls)

\* a is b with some elements left out
RECURSIVE IsSubseq(_, _)
IsSubseq(a, b) ==
    IF a = <<>> THEN TRUE
    ELSE IF b = <<>> THEN FALSE
    ELSE IF Head(a) = Head(b) THEN IsSubseq(Tail(a), Tail(b))
    ELSE IsSubseq(a, Tail(b))

\* the rows of session s in the sequence of their insertion, as messages
LogOf(s) ==
    LET rows == SessionRows(s)
    IN  [i \in DOMAIN rows |-> [role |-> rows[i].role, content |-> rows[i].content]]

\* the messages request r has appended, as messages
OwnAppends(r) ==
    LET ms == Appended(r)
    IN  [i \in DOMAIN ms |-> [role |-> ms[i].role, content |-> ms[i].content]]

\* requests r and q are in flight on one session
SameSession(r, q) ==
    /\ r # q
    /\ pc[r] # "idle"
    /\ pc[q] # "idle"
    /\ sessionId[r] = sessionId[q]

\* the three messages of the executed sql turn n of request r lie next to
\* each other in the log of its session
Contiguous(r, n) ==
    LET added == CallsIn(r, "insert_message", n)
        log == LogOf(sessionId[r])
    IN  \E p \in 1..(Len(log) - 2) :
            \A k \in 1..3 :
                log[p + k - 1] = [role |-> added[k].arg[1], content |-> added[k].arg[2]]

\* C29 as stated: when two /chat requests on one session id run with their
\* steps interleaved, the messages each request appends stay in its own
\* order in the session log, the three messages of an accepted sql turn stay
\* contiguous, and each decision call sees a message list equal to the
\* persisted session log at the time of the call.
C29_InterleavedRequestsKeepTheLog ==
    \A r \in Concurrent, q \in Concurrent :
        SameSession(r, q) =>
            /\ IsSubseq(OwnAppends(r), LogOf(sessionId[r]))
            /\ \A n \in 1..turn_count[r] :
                   (ExecutedSql(DecisionsOf(r)[n]) /\ TurnOver(r, n))
                       => Contiguous(r, n)
            /\ AtDecisionCall(r) => messages_passed(r) = LogOf(sessionId[r])

\* C29, amended: when two /chat requests on one session id run with their
\* steps interleaved, the messages each request appends stay in its own
\* order among the rows of the session, which hold the appends of both
\* requests and nothing else; and the message list of each decision call is
\* what the request read at its start followed by its own appends.
C29_InterleavedRequestsKeepOwnOrder ==
    \A r \in Concurrent, q \in Concurrent :
        SameSession(r, q) =>
            /\ IsSubseq(OwnAppends(r), LogOf(sessionId[r]))
            /\ Len(LogOf(sessionId[r])) = Len(OwnAppends(r)) + Len(OwnAppends(q))
            /\ (pc[r] # "load" /\ ~Finished(r)) =>
                   messages_passed(r) = ReadAtStart(r) \o OwnAppends(r)

\* request 1 is about to make its second decision call, after an executed
\* sql turn; the user message of request 2, on the same session, lies
\* between the raw decision and the merged message of that turn, and the
\* list request 1 passes is not the log
C29_Witness ==
    /\ SameSession(1, 2)
    /\ AtDecisionCall(1)
    /\ turn_count[1] = 1
    /\ Len(sql_history[1]) = 1
    /\ ~Contiguous(1, 1)
    /\ messages_passed(1) # LogOf(sessionId[1])
    /\ \E p \in 2..(Len(LogOf("s1")) - 1) :
        /\ LogOf("s1")[p].role = "user"
        /\ LogOf("s1")[p - 1].content = JsonDumps(DecisionsOf(1)[1])
        /\ LogOf("s1")[p + 1] = [role |-> "assistant", content |-> UsualMerged]

=============================================================================
